---- MODULE Spec2Model ----
(***************************************************************************)
(* Model of scripts/slack-notification.ts: the reconstruction of ongoing   *)
(* outages from statuses.jsonl (findCurrentOutages), and the run of        *)
(* sendSlackNotification against reported-outages.json and the webhook.    *)
(***************************************************************************)
EXTENDS Integers, Sequences, FiniteSets, TLC

\* ------------------------------------------------------------------ bounds

\* Most service checks (entries of check.checks, summed over the lines of
\* statuses.jsonl) in a file given to findCurrentOutages.
MaxChecks == 3
\* Instants are 0, Tick, ..., MaxTick * Tick.
MaxTick == 2
\* Most service checks in the statuses.jsonl a run starts from.
MaxRunChecks == 2

\* One step of the model's clock, in milliseconds: ten minutes.
Tick == 10 * 60 * 1000

Instants == {k * Tick : k \in 0..MaxTick}

\* ---------------------------------------------------------- program values

NOTIFICATION_THRESHOLD == 20 * 60 * 1000

Services == {"svcA", "svcB"}

\* service.error of a check: the field absent, empty, or a message.
undefined == "<undefined>"
Errors == {undefined, "", "timeout", "refused"}

\* One entry of check.checks.
ServiceChecks ==
  [service : Services, status : {"ok"}, error : {undefined}]
    \cup [service : Services, status : {"error"}, error : Errors]

\* ------------------------------------------------------- findCurrentOutages

\* a.timestamp - b.timestamp of the comparator.
compare(a, b) == a.timestamp - b.timestamp

\* Array.prototype.sort is stable: a check moves left only past checks that
\* compare strictly greater.
RECURSIVE insertSorted(_, _)
insertSorted(sorted, c) ==
  IF sorted = <<>> THEN <<c>>
  ELSE IF compare(sorted[Len(sorted)], c) > 0
       THEN Append(insertSorted(SubSeq(sorted, 1, Len(sorted) - 1), c),
                   sorted[Len(sorted)])
       ELSE Append(sorted, c)

\* sortChecks with the sort left out: the checks are replayed in file order.
sortChecks_fileOrder(checks) == checks

RECURSIVE sortChecks(_)
sortChecks(checks) ==
  IF checks = <<>> THEN <<>>
  ELSE insertSorted(sortChecks(SubSeq(checks, 1, Len(checks) - 1)),
                    checks[Len(checks)])

\* A Map is kept as the sequence of its entries in insertion order.
mapHas(m, key) == \E i \in 1..Len(m) : m[i].service = key

mapDelete(m, key) == SelectSeq(m, LAMBDA e : e.service # key)

mapSet(m, key, value) ==
  IF mapHas(m, key)
  THEN [i \in 1..Len(m) |-> IF m[i].service = key THEN value ELSE m[i]]
  ELSE Append(m, value)

mapKeys(m) == {m[i].service : i \in 1..Len(m)}

mapGet(m, key) == m[CHOOSE i \in 1..Len(m) : m[i].service = key]

\* service.error || "Unknown error"
errorOrUnknown(e) == IF e = undefined \/ e = "" THEN "Unknown error" ELSE e

\* serviceStatus.set(serviceName, ...) on a Map kept as a function.
statusSet(serviceStatus, serviceName, value) ==
  [s \in DOMAIN serviceStatus \cup {serviceName} |->
     IF s = serviceName THEN value ELSE serviceStatus[s]]

\* onError that restarts the outage at every error check.
onError_restart(st, checkTime, service) ==
  [serviceStatus |->
     statusSet(st.serviceStatus, service.service,
               [status |-> "error", since |-> checkTime,
                error |-> errorOrUnknown(service.error)]),
   outageMap |->
     mapSet(st.outageMap, service.service,
            [service |-> service.service, startTime |-> checkTime,
             duration |-> 0, error |-> errorOrUnknown(service.error),
             isOngoing |-> TRUE])]

\* onError that keeps the start of the outage and stores the latest message.
onError_latestMessage(st, checkTime, service) ==
  LET serviceName == service.service
      fresh == \/ serviceName \notin DOMAIN st.serviceStatus
               \/ st.serviceStatus[serviceName].status = "ok"
      start == IF fresh THEN checkTime
               ELSE mapGet(st.outageMap, serviceName).startTime
  IN  [serviceStatus |->
         statusSet(st.serviceStatus, serviceName,
                   [status |-> "error", since |-> start,
                    error |-> errorOrUnknown(service.error)]),
       outageMap |->
         mapSet(st.outageMap, serviceName,
                [service |-> serviceName, startTime |-> start,
                 duration |-> 0, error |-> errorOrUnknown(service.error),
                 isOngoing |-> TRUE])]

\* Lines 116-135: the check says error. st is the pair of working maps
\* [serviceStatus, outageMap].
onError(st, checkTime, service) ==
  LET serviceName == service.service
  IN  IF \/ serviceName \notin DOMAIN st.serviceStatus
         \/ st.serviceStatus[serviceName].status = "ok"
      THEN [serviceStatus |->
              statusSet(st.serviceStatus, serviceName,
                        [status |-> "error", since |-> checkTime,
                         error |-> errorOrUnknown(service.error)]),
            outageMap |->
              mapSet(st.outageMap, serviceName,
                     [service |-> serviceName, startTime |-> checkTime,
                      duration |-> 0,
                      error |-> errorOrUnknown(service.error),
                      isOngoing |-> TRUE])]
      ELSE st

\* onOk that records the recovery and leaves the outage in the map.
onOk_keepsOutage(st, checkTime, service) ==
  LET serviceName == service.service
  IN  IF /\ serviceName \in DOMAIN st.serviceStatus
         /\ st.serviceStatus[serviceName].status = "error"
      THEN [st EXCEPT !.serviceStatus =
              statusSet(st.serviceStatus, serviceName,
                        [status |-> "ok", since |-> checkTime,
                         error |-> undefined])]
      ELSE st

\* Lines 138-152: the check says ok.
onOk(st, checkTime, service) ==
  LET serviceName == service.service
  IN  IF /\ serviceName \in DOMAIN st.serviceStatus
         /\ st.serviceStatus[serviceName].status = "error"
      THEN [serviceStatus |->
              statusSet(st.serviceStatus, serviceName,
                        [status |-> "ok", since |-> checkTime,
                         error |-> undefined]),
            outageMap |-> mapDelete(st.outageMap, serviceName)]
      ELSE st

\* The body of the inner loop for one service of one check.
processService(st, checkTime, service) ==
  IF service.status = "error" THEN onError(st, checkTime, service)
  ELSE IF service.status = "ok" THEN onOk(st, checkTime, service)
  ELSE st

RECURSIVE processServices(_, _, _)
processServices(st, checkTime, services) ==
  IF services = <<>> THEN st
  ELSE processServices(processService(st, checkTime, Head(services)),
                       checkTime, Tail(services))

RECURSIVE processChecks(_, _)
processChecks(st, checks) ==
  IF checks = <<>> THEN st
  ELSE processChecks(
         processServices(st, Head(checks).timestamp, Head(checks).checks),
         Tail(checks))

emptyMaps == [serviceStatus |-> <<>>, outageMap |-> <<>>]

\* withDuration measured from the epoch instead of from the start.
withDuration_sinceEpoch(m, now) ==
  [i \in 1..Len(m) |-> [m[i] EXCEPT !.duration = now]]

\* outage.duration = now.getTime() - outage.startTime.getTime()
withDuration(m, now) ==
  [i \in 1..Len(m) |-> [m[i] EXCEPT !.duration = now - m[i].startTime]]

\* statusChecks.sort(...) sorts the array once, in place; the loops then
\* read the sorted array.
findCurrentOutages(checks, now) ==
  CHOOSE outages \in
    {withDuration(processChecks(emptyMaps, sorted).outageMap, now) :
       sorted \in {sortChecks(checks)}} : TRUE

\* ------------------------------------------------------------------- state

VARIABLES
  SLACK_WEBHOOK_URL,       \* process.env.SLACK_WEBHOOK_URL
  statusFile,              \* statuses.jsonl: the status checks, in file order
  statusParses,            \* statuses.jsonl can be read and every line of it
                           \* parses
  reportedFile,            \* reported-outages.json: service -> timestamp
  reportedReadable,        \* reported-outages.json can be read and parsed
  clock,                   \* what new Date() and Date.now() return
  pc,                      \* position of the run
  reportedOutages,         \* the ledger as loadReportedOutages returned it
  currentOutages,          \* the Map findCurrentOutages returned
  updatedReportedOutages,  \* the run's copy of the ledger
  newOutages,              \* the outages put in the message
  posts,                   \* calls of ky.post made by the run
  response,                \* how the call of ky.post ended
  saved,                   \* the run's call of saveReportedOutages: "no",
                           \* "written" or "failed"
  exitCode,                \* exit status of the process, once pc = "exited"
  previousFailed,          \* history: the services of the message whose
                           \* delivery failed in the run before this one
  ledgerRead,              \* the run's call of loadReportedOutages: "no",
                           \* "ok" or "failed"
  statusRead,              \* the run's call of readStatusChecks: "no", "ok"
                           \* or "failed"
  delivered,               \* history: the <<service, startTime>> of the
                           \* outages of the messages answered 2xx
  redelivered,             \* history: those answered 2xx more than once
  ledgerFailed             \* history: a read or a write of
                           \* reported-outages.json has failed

vars == <<SLACK_WEBHOOK_URL, statusFile, statusParses, reportedFile,
          reportedReadable, clock, pc, reportedOutages, currentOutages,
          updatedReportedOutages, newOutages, posts, response, saved,
          exitCode, previousFailed, ledgerRead, statusRead, delivered,
          redelivered, ledgerFailed>>

\* The two files: what a run shares with its environment and the next run.
files == <<statusFile, statusParses, reportedFile, reportedReadable>>

\* The variables of one run (one process).
locals == <<reportedOutages, currentOutages, updatedReportedOutages,
            newOutages, posts, response, saved, exitCode, previousFailed,
            ledgerRead, statusRead>>

\* What the runs so far have done.
history == <<delivered, redelivered, ledgerFailed>>

\* {} of loadReportedOutages, a ledger with no key.
emptyLedger == [s \in {} |-> 0]

\* ------------------------------------------------- inputs of reconstruction

\* The lists of k service checks, drawn from C, a status check can carry; a
\* service occurs once in a status check.
RECURSIVE CheckLists(_, _)
CheckLists(k, C) ==
  IF k = 0 THEN {<<>>}
  ELSE {l \in {Append(h, c) : h \in CheckLists(k - 1, C), c \in C} :
          \A i, j \in 1..Len(l) : i # j => l[i].service # l[j].service}

\* The status checks with k service checks.
StatusChecks(k, C) == [timestamp : Instants, checks : CheckLists(k, C)]

\* The status checks with at most n service checks, and at least one.
Lines(n, C) ==
  UNION {StatusChecks(k, C) :
           k \in 1..(IF n < Cardinality(Services) THEN n
                     ELSE Cardinality(Services))}

\* The number of service checks in a file.
RECURSIVE checksIn(_)
checksIn(file) ==
  IF file = <<>> THEN 0 ELSE Len(Head(file).checks) + checksIn(Tail(file))

\* The monitor appends one line to statuses.jsonl: any timestamp of
\* Instants (writers are not synchronised with this script's clock), service
\* checks drawn from C, the file kept to at most max service checks.
writeStatus(C, max) ==
  /\ checksIn(statusFile) < max
  /\ \E line \in Lines(max - checksIn(statusFile), C) :
       statusFile' = Append(statusFile, line)
  /\ UNCHANGED <<SLACK_WEBHOOK_URL, statusParses, reportedFile,
                 reportedReadable, clock, pc, locals, history>>

\* ------------------------------------------ reconstruction as a function

InitRecon ==
  /\ SLACK_WEBHOOK_URL = "https://hooks.slack.example"
  /\ statusFile = <<>>
  /\ statusParses = TRUE
  /\ clock \in Instants
  /\ reportedFile = emptyLedger
  /\ reportedReadable = TRUE
  /\ pc = "start"
  /\ reportedOutages = emptyLedger
  /\ currentOutages = <<>>
  /\ updatedReportedOutages = emptyLedger
  /\ newOutages = <<>>
  /\ posts = 0
  /\ response = "none"
  /\ saved = "no"
  /\ exitCode = 0
  /\ previousFailed = {}
  /\ ledgerRead = "no"
  /\ statusRead = "no"
  /\ delivered = {}
  /\ redelivered = {}
  /\ ledgerFailed = FALSE

\* statuses.jsonl grows before it is read.
writeAnyStatus == pc = "start" /\ writeStatus(ServiceChecks, MaxChecks)

\* const currentOutages = findCurrentOutages(statusChecks)
reconstruct ==
  /\ pc = "start"
  /\ currentOutages' = findCurrentOutages(statusFile, clock)
  /\ pc' = "found"
  /\ UNCHANGED <<SLACK_WEBHOOK_URL, files, clock, reportedOutages,
                 updatedReportedOutages, newOutages, posts, response, saved,
                 exitCode, previousFailed, ledgerRead, statusRead, history>>

NextRecon == writeAnyStatus \/ reconstruct

SpecRecon == InitRecon /\ [][NextRecon]_vars

\* ------------------------------------------------------------- the ledger

\* loadReportedOutages: the object in the file, or {} when the file is
\* absent, cannot be read or does not parse.
loadReportedOutages ==
  IF reportedReadable THEN reportedFile ELSE emptyLedger

\* removeResolved that removes nothing.
removeResolved_keepsAll(ledger, outages) == ledger

\* removeResolved that clears the ledger only when no outage is left.
removeResolved_whenNoneLeft(ledger, outages) ==
  IF outages = <<>> THEN [s \in {} |-> 0] ELSE ledger

\* Lines 189-198: the copy of the ledger without the services that have no
\* current outage.
removeResolved(ledger, outages) ==
  [s \in {k \in DOMAIN ledger : mapHas(outages, k)} |-> ledger[s]]

\* Lines 201-203: the outages that have lasted the threshold.
longOutagesOf(outages) ==
  SelectSeq(outages, LAMBDA o : o.duration >= NOTIFICATION_THRESHOLD)

\* truthyEntry that finds no service reported.
truthyEntry_never(ledger, service) == FALSE

\* updatedReportedOutages[service] as a condition: a key with a non-zero
\* number. A missing key reads undefined and a stored 0 is falsy.
truthyEntry(ledger, service) ==
  service \in DOMAIN ledger /\ ledger[service] # 0

\* Lines 217-219: the long outages the ledger does not report.
newOutagesOf(long, ledger) ==
  SelectSeq(long, LAMBDA o : ~truthyEntry(ledger, o.service))

servicesOf(outages) == {outages[i].service : i \in 1..Len(outages)}

\* markReported that forgets the entries the ledger had.
markReported_onlyAlerted(ledger, outages, now) ==
  [s \in servicesOf(outages) |-> now]

\* Lines 280-282: every outage of the message stamped with Date.now().
markReported(ledger, outages, now) ==
  [s \in DOMAIN ledger \cup servicesOf(outages) |->
     IF s \in servicesOf(outages) THEN now ELSE ledger[s]]

\* afterResponse that stamps the ledger whatever the status.
afterResponse_alwaysMarks(ok, ledger, outages, now) ==
  markReported(ledger, outages, now)

\* Lines 276-288: the ledger after a response that did not throw.
afterResponse(ok, ledger, outages, now) ==
  IF ok THEN markReported(ledger, outages, now) ELSE ledger

\* saveReportedOutages: the file holds the ledger when the write succeeds.
\* A failed write is logged and swallowed; it leaves the file as it was, or
\* truncated, which the next run cannot parse.
saveReportedOutages(ledger, outcome) ==
  /\ saved' = (IF outcome = "written" THEN "written" ELSE "failed")
  /\ reportedFile' = (CASE outcome = "written" -> ledger
                         [] outcome = "untouched" -> reportedFile
                         [] OTHER -> emptyLedger)
  /\ reportedReadable' = (CASE outcome = "written" -> TRUE
                             [] outcome = "untouched" -> reportedReadable
                             [] OTHER -> FALSE)

WriteOutcomes == {"written", "untouched", "truncated"}

\* ---------------------------------------------------------------- the run

\* How ky.post rejects: a non-2xx status, the 10 second timeout, a network
\* failure.
Rejections == {"HTTPError", "TimeoutError", "NetworkError"}

\* The ways a delivery fails: ky.post rejects, or resolves with a status
\* outside 200-299.
DeliveryErrors == Rejections \cup {"non2xx"}

\* webhookSet that takes an empty variable for an address.
webhookSet_acceptsEmpty == SLACK_WEBHOOK_URL # undefined

\* !SLACK_WEBHOOK_URL is false: the variable is set and is not empty.
webhookSet == SLACK_WEBHOOK_URL \notin {undefined, ""}

\* statusReadable that passes over the lines that do not parse.
statusReadable_skipsBadLines == statusFile # <<>>

\* readStatusChecks resolves: the file is read and every line parses. The
\* text of an absent file cannot be read, and an empty file splits into one
\* empty line, which JSON.parse rejects.
statusReadable == statusParses /\ statusFile # <<>>

\* How loadReportedOutages ends: the catch block logs a failure.
ledgerReadOutcome == IF reportedReadable THEN "ok" ELSE "failed"

\* History: a read or a write of the ledger by the step has failed.
noteLedgerFailure ==
  ledgerFailed' = (ledgerFailed \/ ledgerRead' = "failed" \/ saved' = "failed")

\* A run starts when the scheduler starts the script: at first, and again
\* after the previous process has exited. The history variable takes the
\* services of the previous run's message when its delivery failed.
canStart ==
  /\ pc \in {"start", "exited"}
  /\ previousFailed' =
       (IF pc = "exited" /\ response \in DeliveryErrors
        THEN servicesOf(newOutages) ELSE {})

\* Lines 26-30: SLACK_WEBHOOK_URL is not set; the process exits before
\* sendSlackNotification is called.
configMissing ==
  /\ canStart
  /\ ~webhookSet
  /\ pc' = "exited"
  /\ exitCode' = 1
  /\ ledgerRead' = "no"
  /\ statusRead' = "no"
  /\ reportedOutages' = emptyLedger
  /\ currentOutages' = <<>>
  /\ updatedReportedOutages' = emptyLedger
  /\ newOutages' = <<>>
  /\ posts' = 0
  /\ response' = "none"
  /\ saved' = "no"
  /\ UNCHANGED <<SLACK_WEBHOOK_URL, files, clock, history>>

\* sourceFails that also ends the run when the ledger cannot be read.
sourceFails_ledgerFatal ==
  /\ canStart
  /\ webhookSet
  /\ ~statusReadable \/ ~reportedReadable
  /\ pc' = "exited"
  /\ exitCode' = 1
  /\ ledgerRead' = ledgerReadOutcome
  /\ statusRead' = "failed"
  /\ reportedOutages' = loadReportedOutages
  /\ currentOutages' = <<>>
  /\ updatedReportedOutages' = emptyLedger
  /\ newOutages' = <<>>
  /\ posts' = 0
  /\ response' = "none"
  /\ saved' = "no"
  /\ noteLedgerFailure
  /\ UNCHANGED <<SLACK_WEBHOOK_URL, files, clock, delivered, redelivered>>

\* Lines 177-181 and 295-303: readStatusChecks rejects (the file cannot be
\* read, or a line does not parse); the catch block exits.
sourceFails ==
  /\ canStart
  /\ webhookSet
  /\ ~statusReadable
  /\ pc' = "exited"
  /\ exitCode' = 1
  /\ ledgerRead' = ledgerReadOutcome
  /\ statusRead' = "failed"
  /\ reportedOutages' = loadReportedOutages
  /\ currentOutages' = <<>>
  /\ updatedReportedOutages' = emptyLedger
  /\ newOutages' = <<>>
  /\ posts' = 0
  /\ response' = "none"
  /\ saved' = "no"
  /\ noteLedgerFailure
  /\ UNCHANGED <<SLACK_WEBHOOK_URL, files, clock, delivered, redelivered>>

\* Lines 177-203, common to the runs that read both files.
decide ==
  /\ canStart
  /\ webhookSet
  /\ statusReadable
  /\ ledgerRead' = ledgerReadOutcome
  /\ statusRead' = "ok"
  /\ reportedOutages' = loadReportedOutages
  /\ currentOutages' = findCurrentOutages(statusFile, clock)
  /\ UNCHANGED <<SLACK_WEBHOOK_URL, statusFile, statusParses, clock>>

\* Lines 210-214: no outage has lasted the threshold.
nothingLong ==
  /\ decide
  /\ longOutagesOf(currentOutages') = <<>>
  /\ updatedReportedOutages' = removeResolved(reportedOutages', currentOutages')
  /\ newOutages' = <<>>
  /\ posts' = 0
  /\ response' = "none"
  /\ \E outcome \in WriteOutcomes :
       saveReportedOutages(updatedReportedOutages', outcome)
  /\ exitCode' = 0
  /\ pc' = "exited"
  /\ noteLedgerFailure
  /\ UNCHANGED <<delivered, redelivered>>

\* Lines 216-227: every long outage is reported by the ledger.
allReported ==
  /\ decide
  /\ longOutagesOf(currentOutages') # <<>>
  /\ updatedReportedOutages' = removeResolved(reportedOutages', currentOutages')
  /\ newOutagesOf(longOutagesOf(currentOutages'), updatedReportedOutages') = <<>>
  /\ newOutages' = <<>>
  /\ posts' = 0
  /\ response' = "none"
  /\ \E outcome \in WriteOutcomes :
       saveReportedOutages(updatedReportedOutages', outcome)
  /\ exitCode' = 0
  /\ pc' = "exited"
  /\ noteLedgerFailure
  /\ UNCHANGED <<delivered, redelivered>>

\* Lines 216-269: there are new outages; the message is built and ky.post is
\* called and awaited.
sendMessage ==
  /\ decide
  /\ updatedReportedOutages' = removeResolved(reportedOutages', currentOutages')
  /\ newOutages' =
       newOutagesOf(longOutagesOf(currentOutages'), updatedReportedOutages')
  /\ newOutages' # <<>>
  /\ posts' = 1
  /\ response' = "pending"
  /\ saved' = "no"
  /\ exitCode' = 0
  /\ pc' = "sending"
  /\ noteLedgerFailure
  /\ UNCHANGED <<reportedFile, reportedReadable, delivered, redelivered>>

\* The outages of a message, as <<service, startTime>>.
outagesOf(outages) ==
  {<<outages[i].service, outages[i].startTime>> : i \in 1..Len(outages)}

\* Lines 274-282 and 294: the response has a 2xx status.
postSucceeds ==
  /\ pc = "sending"
  /\ response' = "2xx"
  /\ updatedReportedOutages' =
       afterResponse(TRUE, updatedReportedOutages, newOutages, clock)
  /\ \E outcome \in WriteOutcomes :
       saveReportedOutages(updatedReportedOutages', outcome)
  /\ exitCode' = 0
  /\ pc' = "exited"
  /\ delivered' = delivered \cup outagesOf(newOutages)
  /\ redelivered' = redelivered \cup (delivered \cap outagesOf(newOutages))
  /\ UNCHANGED <<SLACK_WEBHOOK_URL, statusFile, statusParses, clock,
                 reportedOutages, currentOutages, newOutages, posts,
                 previousFailed, ledgerRead, statusRead>>
  /\ noteLedgerFailure

\* Lines 283-288 and 294: ky.post resolves with a status outside 200-299.
\* ky rejects on such a status unless throwHttpErrors is off (see
\* postThrows); the branch is in the source and is kept.
postReturnsError ==
  /\ pc = "sending"
  /\ response' = "non2xx"
  /\ updatedReportedOutages' =
       afterResponse(FALSE, updatedReportedOutages, newOutages, clock)
  /\ \E outcome \in WriteOutcomes :
       saveReportedOutages(updatedReportedOutages', outcome)
  /\ exitCode' = 0
  /\ pc' = "exited"
  /\ UNCHANGED <<SLACK_WEBHOOK_URL, statusFile, statusParses, clock,
                 reportedOutages, currentOutages, newOutages, posts,
                 previousFailed, ledgerRead, statusRead, delivered,
                 redelivered>>
  /\ noteLedgerFailure

\* Lines 269 and 295-303: ky.post rejects; the catch block logs and exits
\* with status 1. Line 294 is not reached.
postThrows ==
  /\ pc = "sending"
  /\ response' \in Rejections
  /\ exitCode' = 1
  /\ pc' = "exited"
  /\ UNCHANGED <<SLACK_WEBHOOK_URL, files, clock, reportedOutages,
                 currentOutages, updatedReportedOutages, newOutages, posts,
                 saved, previousFailed, ledgerRead, statusRead, history>>

\* ---------------------------------------------------------- the environment

\* The latest time of the clock, in ticks.
MaxClock == MaxTick + 1

\* Time passes. The clock is past the epoch: Date.now() is never 0.
tick ==
  /\ clock < MaxClock * Tick
  /\ clock' = clock + Tick
  /\ UNCHANGED <<SLACK_WEBHOOK_URL, files, pc, locals, history>>

\* The service checks of the files of the runs: one message.
RunChecks == {c \in ServiceChecks : c.status = "error" => c.error = "timeout"}

writeRunStatus == writeStatus(RunChecks, MaxRunChecks)

\* The monitor leaves a line in statuses.jsonl that JSON.parse rejects, or
\* that is no status check.
writeMalformed ==
  /\ statusParses
  /\ statusParses' = FALSE
  /\ UNCHANGED <<SLACK_WEBHOOK_URL, statusFile, reportedFile,
                 reportedReadable, clock, pc, locals, history>>

\* The ledgers reported-outages.json can hold when the first run starts:
\* any services, timestamps 0 (the epoch) and Tick.
Ledgers ==
  UNION {[keys -> {0, Tick}] : keys \in SUBSET Services}

\* process.env.SLACK_WEBHOOK_URL: not set, empty, or the address.
WebhookUrls == {undefined, "", "https://hooks.slack.example"}

Init ==
  /\ SLACK_WEBHOOK_URL \in WebhookUrls
  /\ statusFile = <<>>
  /\ statusParses = TRUE
  /\ reportedReadable \in BOOLEAN
  /\ reportedFile \in (IF reportedReadable THEN Ledgers ELSE {emptyLedger})
  /\ clock = Tick
  /\ pc = "start"
  /\ reportedOutages = emptyLedger
  /\ currentOutages = <<>>
  /\ updatedReportedOutages = emptyLedger
  /\ newOutages = <<>>
  /\ posts = 0
  /\ response = "none"
  /\ saved = "no"
  /\ exitCode = 0
  /\ previousFailed = {}
  /\ ledgerRead = "no"
  /\ statusRead = "no"
  /\ delivered = {}
  /\ redelivered = {}
  /\ ledgerFailed = FALSE

Next ==
  \/ configMissing
  \/ sourceFails
  \/ nothingLong
  \/ allReported
  \/ sendMessage
  \/ postSucceeds
  \/ postReturnsError
  \/ postThrows
  \/ tick
  \/ writeRunStatus
  \/ writeMalformed

Spec == Init /\ [][Next]_vars

\* ------------------------------------- a sequence of runs on one service

\* The service checks of one service.
OneServiceChecks == {c \in RunChecks : c.service = "svcA"}

\* The monitor appends a status check of the service.
writeServiceStatus == writeStatus(OneServiceChecks, MaxChecks)

\* The script is deployed with the webhook set, before the monitor has
\* written anything and before there is a ledger.
InitRuns ==
  /\ SLACK_WEBHOOK_URL = "https://hooks.slack.example"
  /\ statusFile = <<>>
  /\ statusParses = TRUE
  /\ reportedReadable = TRUE
  /\ reportedFile = emptyLedger
  /\ clock = Tick
  /\ pc = "start"
  /\ reportedOutages = emptyLedger
  /\ currentOutages = <<>>
  /\ updatedReportedOutages = emptyLedger
  /\ newOutages = <<>>
  /\ posts = 0
  /\ response = "none"
  /\ saved = "no"
  /\ exitCode = 0
  /\ previousFailed = {}
  /\ ledgerRead = "no"
  /\ statusRead = "no"
  /\ delivered = {}
  /\ redelivered = {}
  /\ ledgerFailed = FALSE

NextRuns ==
  \/ sourceFails
  \/ nothingLong
  \/ allReported
  \/ sendMessage
  \/ postSucceeds
  \/ postReturnsError
  \/ postThrows
  \/ tick
  \/ writeServiceStatus

SpecRuns == InitRuns /\ [][NextRuns]_vars

\* The scheduler keeps starting the script, the clock advances, a call of
\* ky.post ends (it has a timeout), and ky.post does not fail, nor the write
\* that follows it, every time it is tried.
FairRuns ==
  /\ SpecRuns
  /\ WF_vars(tick)
  /\ WF_vars(sourceFails \/ nothingLong \/ allReported \/ sendMessage)
  /\ WF_vars(postSucceeds \/ postReturnsError \/ postThrows)
  /\ SF_vars(postSucceeds /\ saved' = "written")

\* ------------------------------------------ properties of reconstruction

\* The outage Map as a mapping from service to outage, insertion order
\* forgotten.
AsMapping(m) == [s \in mapKeys(m) |-> mapGet(m, s)]

\* Every reordering of the lines of a file.
Reorderings(file) ==
  {[i \in 1..Len(file) |-> file[p[i]]] : p \in Permutations(1..Len(file))}

\* The lines of statusFile that carry a check of service s, and that check.
Seen(s) ==
  {i \in 1..Len(statusFile) :
     \E j \in 1..Len(statusFile[i].checks) :
       statusFile[i].checks[j].service = s}

CheckOf(i, s) ==
  LET cs == statusFile[i].checks
  IN  cs[CHOOSE j \in 1..Len(cs) : cs[j].service = s]

\* Line i is replayed before line j: earlier timestamp, or the same
\* timestamp and earlier in the file.
Before(i, j) ==
  \/ statusFile[i].timestamp < statusFile[j].timestamp
  \/ statusFile[i].timestamp = statusFile[j].timestamp /\ i < j

\* The last line replayed for s.
Last(s) == CHOOSE i \in Seen(s) : \A j \in Seen(s) : j = i \/ Before(j, i)

\* From line r to the end of the replay every check of s says error.
ErrorFrom(r, s) ==
  \A e \in Seen(s) : (e = r \/ Before(r, e)) => CheckOf(e, s).status = "error"

\* The first line of the final run of error checks of s.
RunStart(s) ==
  CHOOSE r \in Seen(s) :
    /\ ErrorFrom(r, s)
    /\ \A q \in Seen(s) : ErrorFrom(q, s) => (q = r \/ Before(r, q))

\* Two lines with the same timestamp both carry a check of one service.
TiedOnService ==
  \E i, j \in 1..Len(statusFile) :
    /\ i < j
    /\ statusFile[i].timestamp = statusFile[j].timestamp
    /\ \E s \in Services : i \in Seen(s) /\ j \in Seen(s)

\* The statuses s has at its latest timestamp.
LatestStatuses(s) ==
  {CheckOf(i, s).status :
     i \in {i \in Seen(s) :
              \A j \in Seen(s) :
                statusFile[j].timestamp <= statusFile[i].timestamp}}

\* C1 as stated: whatever the order of the lines of the file, ties in
\* timestamp included, reconstruction returns the same mapping.
C1_AnyOrderSameOutages ==
  pc = "found" =>
    \A file \in Reorderings(statusFile) :
      AsMapping(findCurrentOutages(file, clock)) = AsMapping(currentOutages)

\* C1 amended: when no two lines that share a timestamp carry a check of
\* the same service, every reordering of the lines gives the same mapping.
C1_OrderInvariantWithoutTies ==
  (pc = "found" /\ ~TiedOnService) =>
    \A file \in Reorderings(statusFile) :
      AsMapping(findCurrentOutages(file, clock)) = AsMapping(currentOutages)

\* A file of three lines in descending order of timestamp, with an outage
\* found.
C1_Witness ==
  /\ pc = "found"
  /\ ~TiedOnService
  /\ Len(statusFile) = MaxChecks
  /\ \A i \in 1..(Len(statusFile) - 1) :
       statusFile[i].timestamp > statusFile[i + 1].timestamp
  /\ currentOutages # <<>>

\* C2 as stated: a service has an outage iff its observation with the
\* latest timestamp says error, wherever that observation is in the file.
C2_OutageIffLatestTimestampError ==
  pc = "found" =>
    \A s \in Services :
      /\ "error" \in LatestStatuses(s) => s \in mapKeys(currentOutages)
      /\ "error" \notin LatestStatuses(s) => s \notin mapKeys(currentOutages)
      /\ "ok" \in LatestStatuses(s) => s \notin mapKeys(currentOutages)

\* C2 amended: a service has an outage iff the observation replayed last
\* for it (latest timestamp, and latest in the file among equal timestamps)
\* says error; a service never seen has none.
C2_OutageIffLastReplayedError ==
  pc = "found" =>
    \A s \in Services :
      s \in mapKeys(currentOutages) <=>
        (Seen(s) # {} /\ CheckOf(Last(s), s).status = "error")

\* A service whose latest timestamp carries both an ok and an error check,
\* the error later in the file, and an outage for it; the other service is
\* seen and has none.
C2_Witness ==
  /\ pc = "found"
  /\ \E s \in Services :
       /\ LatestStatuses(s) = {"ok", "error"}
       /\ s \in mapKeys(currentOutages)
       /\ \E t \in Services :
            t # s /\ Seen(t) # {} /\ t \notin mapKeys(currentOutages)

\* C3: the startTime of every returned outage is the timestamp of the first
\* check of the final run of error checks of its service, in replay order.
C3_StartTimeIsRunStart ==
  pc = "found" =>
    \A i \in 1..Len(currentOutages) :
      currentOutages[i].startTime =
        statusFile[RunStart(currentOutages[i].service)].timestamp

\* An outage whose service was seen in error, then ok, then in error again:
\* the outage starts at the third check, later than the first error.
C3_Witness ==
  /\ pc = "found"
  /\ \E i \in 1..Len(currentOutages) :
       LET s == currentOutages[i].service
       IN  /\ Cardinality(Seen(s)) = MaxChecks
           /\ \E e, o \in Seen(s) :
                /\ Before(e, o) /\ Before(o, RunStart(s))
                /\ CheckOf(e, s).status = "error"
                /\ CheckOf(o, s).status = "ok"
                /\ statusFile[e].timestamp < statusFile[RunStart(s)].timestamp

\* C4: the error text of every returned outage is the message of the first
\* check of the final run of error checks of its service, or "Unknown error"
\* when that check has no message or an empty one.
C4_ErrorIsFirstMessageOfRun ==
  pc = "found" =>
    \A i \in 1..Len(currentOutages) :
      LET first == CheckOf(RunStart(currentOutages[i].service),
                           currentOutages[i].service).error
      IN  currentOutages[i].error =
            (IF first \in {undefined, ""} THEN "Unknown error" ELSE first)

\* An outage whose run starts with an empty message and goes on with another
\* message: the placeholder is what is stored.
C4_Witness ==
  /\ pc = "found"
  /\ \E i \in 1..Len(currentOutages) :
       LET s == currentOutages[i].service
       IN  /\ Last(s) # RunStart(s)
           /\ CheckOf(RunStart(s), s).error = ""
           /\ CheckOf(Last(s), s).error = "timeout"
           /\ currentOutages[i].error = "Unknown error"

\* C5 as stated: the duration of every returned outage is now - startTime
\* and is not negative.
C5_DurationNonNegative ==
  pc = "found" =>
    \A i \in 1..Len(currentOutages) :
      /\ currentOutages[i].duration = clock - currentOutages[i].startTime
      /\ currentOutages[i].duration >= 0

\* C5 amended: the duration of every returned outage is now - startTime; it
\* is negative exactly when the outage starts after now.
C5_DurationIsNowMinusStart ==
  pc = "found" =>
    \A i \in 1..Len(currentOutages) :
      /\ currentOutages[i].duration = clock - currentOutages[i].startTime
      /\ currentOutages[i].duration < 0 <=>
           statusFile[RunStart(currentOutages[i].service)].timestamp > clock

\* Two outages, one started before now and one started at now.
C5_Witness ==
  /\ pc = "found"
  /\ \E i, j \in 1..Len(currentOutages) :
       /\ currentOutages[i].startTime < clock
       /\ currentOutages[i].duration = clock - currentOutages[i].startTime
       /\ currentOutages[j].startTime = clock
       /\ currentOutages[j].duration = 0

\* ------------------------------------------------- properties of the run

\* The run has read both files and decided what to report.
Decided ==
  \/ pc = "sending"
  \/ pc = "exited" /\ (saved # "no" \/ response # "none")

\* The services with a current outage that has lasted the threshold.
LongServices ==
  {s \in mapKeys(currentOutages) :
     mapGet(currentOutages, s).duration >= NOTIFICATION_THRESHOLD}

\* The keys of the cleaned ledger: the loaded keys that have a current
\* outage.
CleanedKeys == DOMAIN reportedOutages \cap mapKeys(currentOutages)

\* The services stamped by the run.
Stamped == IF response = "2xx" THEN servicesOf(newOutages) ELSE {}

\* C6: the run's ledger is the loaded ledger restricted to the services
\* with a current outage, timestamps unchanged (the services stamped after
\* a delivered message aside).
C6_CleanupIsRestriction ==
  Decided =>
    /\ DOMAIN updatedReportedOutages \ Stamped = CleanedKeys \ Stamped
    /\ \A s \in CleanedKeys \ Stamped :
         updatedReportedOutages[s] = reportedOutages[s]

\* A loaded ledger with both services: one has no current outage and is
\* removed, the other has one and keeps its timestamp.
C6_Witness ==
  /\ Decided
  /\ response # "2xx"
  /\ DOMAIN reportedOutages = Services
  /\ \E s \in Services :
       /\ DOMAIN updatedReportedOutages = {s}
       /\ updatedReportedOutages[s] = Tick
       /\ mapKeys(currentOutages) = {s}

\* C7: no service that is a key of the cleaned ledger is put in the message,
\* whatever timestamp is stored under the key; when every long outage is a
\* key of the cleaned ledger, ky.post is not called and the cleaned ledger
\* is what is saved.
C7_LedgerKeyNeverAlerted ==
  Decided =>
    /\ servicesOf(newOutages) \cap CleanedKeys = {}
    /\ LongServices \subseteq CleanedKeys =>
         /\ posts = 0
         /\ saved = "written" => reportedFile = updatedReportedOutages

\* C8: the services put in the message are exactly those with a current
\* outage of duration >= the threshold that are not keys of the cleaned
\* ledger.
C8_AlertedIffLongAndNotKey ==
  Decided => servicesOf(newOutages) = LongServices \ CleanedKeys

\* What lines 201-219 select: the services with a current outage of duration
\* >= the threshold whose entry in the cleaned ledger is absent or 0.
SelectedAsCoded ==
  Decided =>
    servicesOf(newOutages) =
      {s \in LongServices :
         s \notin CleanedKeys \/ reportedOutages[s] = 0}

\* C9: after a delivery error the saved ledger reports none of the services
\* of the message that failed, and the next run that decides puts each of
\* them that still has a long outage in its message again.
C9_FailedDeliveryIsRetried ==
  /\ (pc = "exited" /\ response \in DeliveryErrors) =>
       \A s \in servicesOf(newOutages) :
         s \in DOMAIN reportedFile => reportedFile[s] = 0
  /\ Decided =>
       \A s \in previousFailed :
         s \in LongServices => s \in servicesOf(newOutages)

\* A run that follows a failed delivery has both services of the failed
\* message in its own message.
C9_Witness ==
  /\ pc = "sending"
  /\ previousFailed = Services
  /\ servicesOf(newOutages) = Services

\* C10: after a delivery error the run has written the cleaned ledger
\* (the loaded ledger without the resolved services) to the file by the
\* time it exits. The exit status is left out of the formula: no run that
\* skips the write satisfies the claim, whatever its status.
C10_CleanupSavedOnDeliveryError ==
  (pc = "exited" /\ response \in DeliveryErrors) =>
    /\ saved # "no"
    /\ saved = "written" =>
         reportedFile = removeResolved(reportedOutages, currentOutages)

\* The step is the end of a ky.post that resolved with a 2xx status.
Confirmed == pc = "sending" /\ response' = "2xx"

\* C11: the step that follows a 2xx response and writes the ledger leaves in
\* the file the cleaned ledger (the loaded ledger without the resolved
\* services) merged with every service of the message at Date.now(); and no
\* step of any run gives the file a key it did not have, or a new timestamp
\* under a key, other than such a step for a service of its message.
C11_CommitAfterConfirmedDelivery ==
  [][/\ (Confirmed /\ saved' = "written") =>
          reportedFile' =
            [s \in CleanedKeys \cup servicesOf(newOutages) |->
               IF s \in servicesOf(newOutages) THEN clock
               ELSE reportedOutages[s]]
     /\ \A s \in DOMAIN reportedFile' :
          (s \notin DOMAIN reportedFile \/ reportedFile'[s] # reportedFile[s])
            => (Confirmed /\ s \in servicesOf(newOutages))]_vars

\* A delivered message for one service while the other service keeps the
\* entry the ledger had: the file holds the old timestamp and the new one.
C11_Witness ==
  /\ pc = "exited"
  /\ response = "2xx"
  /\ saved = "written"
  /\ \E s, t \in Services :
       /\ servicesOf(newOutages) = {s}
       /\ DOMAIN reportedFile = {s, t}
       /\ t # s
       /\ reportedFile[t] = reportedOutages[t]
       /\ reportedFile[t] # reportedFile[s]

\* C14: a run calls ky.post at most once, and calls it exactly when some
\* outage of duration >= the threshold is of a service that is no key of
\* the cleaned ledger; a run with no such outage calls nothing, writes the
\* cleaned ledger and exits with status 0.
C14_OnePostIffSomethingToAlert ==
  /\ posts <= 1
  /\ Decided =>
       /\ posts = 1 <=> LongServices \ CleanedKeys # {}
       /\ (pc = "exited" /\ LongServices \ CleanedKeys = {}) =>
            /\ saved # "no"
            /\ exitCode = 0
            /\ saved = "written" =>
                 reportedFile = removeResolved(reportedOutages, currentOutages)

\* What lines 210-272 do: ky.post is called at most once, exactly when some
\* long outage has an absent or 0 entry in the cleaned ledger; a run that
\* does not call it writes the cleaned ledger and exits with status 0.
PostsAsCoded ==
  /\ posts <= 1
  /\ Decided =>
       /\ posts = 1 <=>
            \E s \in LongServices :
              s \notin CleanedKeys \/ reportedOutages[s] = 0
       /\ (pc = "exited" /\ posts = 0) =>
            /\ saved # "no"
            /\ exitCode = 0
            /\ saved = "written" =>
                 reportedFile = removeResolved(reportedOutages, currentOutages)

\* C15: with SLACK_WEBHOOK_URL not set, or empty, every run ends with exit
\* status 1 having read neither file, written nothing and called ky.post
\* not once; reported-outages.json stays as it is.
C15_ConfigMissingExitsBeforeProcessing ==
  /\ [](SLACK_WEBHOOK_URL \in {undefined, ""} =>
          /\ pc \in {"start", "exited"}
          /\ pc = "exited" => exitCode = 1
          /\ ledgerRead = "no"
          /\ statusRead = "no"
          /\ saved = "no"
          /\ posts = 0)
  /\ [][(SLACK_WEBHOOK_URL \in {undefined, ""} =>
           /\ reportedFile' = reportedFile
           /\ reportedReadable' = reportedReadable)]_vars

\* A run without the variable has exited while both files hold something
\* to process.
C15_Witness ==
  /\ SLACK_WEBHOOK_URL = undefined
  /\ pc = "exited"
  /\ exitCode = 1
  /\ checksIn(statusFile) = MaxRunChecks
  /\ DOMAIN reportedFile = Services

\* The step is the start of a run: the scheduler starts the script.
Starts ==
  /\ pc \in {"start", "exited"}
  /\ clock' = clock
  /\ statusFile' = statusFile
  /\ statusParses' = statusParses

\* The step is a run reading both files and deciding what to report.
Decides == Starts /\ statusRead' = "ok"

\* C16: a run that cannot read reported-outages.json, with the webhook set
\* and statuses.jsonl readable, goes on with an empty ledger, puts every
\* outage of duration >= the threshold in its message and does not exit
\* with status 1 at that point; and a run whose write of the ledger failed
\* exits with status 0.
C16_LedgerFailuresNotFatal ==
  /\ [][(/\ Starts
          /\ SLACK_WEBHOOK_URL \notin {undefined, ""}
          /\ statusParses /\ statusFile # <<>>
          /\ ~reportedReadable) =>
           /\ statusRead' = "ok"
           /\ reportedOutages' = emptyLedger
           /\ servicesOf(newOutages') = LongServices'
           /\ exitCode' = 0]_vars
  /\ [](saved = "failed" => exitCode = 0)

\* A run that could not read the ledger has sent both long outages, got a
\* 2xx status, failed to write the ledger and exited with status 0.
C16_Witness ==
  /\ pc = "exited"
  /\ ledgerRead = "failed"
  /\ servicesOf(newOutages) = Services
  /\ response = "2xx"
  /\ saved = "failed"
  /\ exitCode = 0

\* C17: a run that starts, with the webhook set, on a statuses.jsonl that
\* cannot be read or has a line that does not parse (the one empty line of
\* an empty file included) exits with status 1 with nothing reconstructed,
\* no call of ky.post and no write: reported-outages.json stays as it is.
C17_SourceErrorIsFatal ==
  [][(/\ Starts
      /\ SLACK_WEBHOOK_URL \notin {undefined, ""}
      /\ ~statusParses \/ statusFile = <<>>) =>
       /\ pc' = "exited"
       /\ exitCode' = 1
       /\ statusRead' = "failed"
       /\ currentOutages' = <<>>
       /\ posts' = 0
       /\ saved' = "no"
       /\ reportedFile' = reportedFile
       /\ reportedReadable' = reportedReadable]_vars

\* A run has failed on a file with a malformed line after its two checks;
\* the ledger still holds both services, though the checks that parse show
\* no outage.
C17_Witness ==
  /\ pc = "exited"
  /\ statusRead = "failed"
  /\ exitCode = 1
  /\ ~statusParses
  /\ checksIn(statusFile) = MaxRunChecks
  /\ findCurrentOutages(statusFile, clock) = <<>>
  /\ reportedReadable
  /\ DOMAIN reportedFile = Services

\* The services by name, ascending.
ServicesAscending == <<"svcA", "svcB">>

NameBefore(s, t) ==
  \E i, j \in 1..Len(ServicesAscending) :
    i < j /\ ServicesAscending[i] = s /\ ServicesAscending[j] = t

\* C18: the outages of the message are in ascending order of service name.
C18_MessageSortedByServiceName ==
  Decided =>
    \A i, j \in 1..Len(newOutages) :
      i < j => NameBefore(newOutages[i].service, newOutages[j].service)

\* The check of s comes before the check of t in line i.
CheckBefore(i, s, t) ==
  LET cs == statusFile[i].checks
  IN  \E a, b \in 1..Len(cs) :
        a < b /\ cs[a].service = s /\ cs[b].service = t

\* What lines 128, 150, 201 and 217 give: the outages of the message are in
\* the order in which their services entered outageMap for the last time,
\* that is, in replay order of the first error check of each outage.
OrderAsCoded ==
  [][Decides =>
       \A i, j \in 1..Len(newOutages') :
         i < j =>
           LET s == newOutages'[i].service
               t == newOutages'[j].service
           IN  \/ Before(RunStart(s), RunStart(t))
               \/ RunStart(s) = RunStart(t) /\ CheckBefore(RunStart(s), s, t)]_vars

\* C19: when a run has written the ledger, every key of the file is a
\* service with an outage in the Map that run's findCurrentOutages returned;
\* and every service of that Map has been seen in the file the run read,
\* with an error check replayed last.
C19_PersistedKeysHaveOutage ==
  /\ []((pc = "exited" /\ saved = "written") =>
          DOMAIN reportedFile \subseteq mapKeys(currentOutages))
  /\ [][(Decides =>
           \A s \in mapKeys(currentOutages') :
             Seen(s) # {} /\ CheckOf(Last(s), s).status = "error")]_vars

\* A run loaded a ledger with one service, found that service without
\* outage and the other with a long one, delivered it and wrote the ledger:
\* the file holds the other service only.
C19_Witness ==
  /\ pc = "exited"
  /\ saved = "written"
  /\ response = "2xx"
  /\ \E s, t \in Services :
       /\ s # t
       /\ DOMAIN reportedOutages = {t}
       /\ mapKeys(currentOutages) = {s}
       /\ DOMAIN reportedFile = {s}

\* ---------------------------------------- properties of a sequence of runs

\* An outage of s that started at t0 was delivered, an ok check of s is
\* replayed after an error check of s at t0, and the current outage of s
\* starts after that ok check: s has recovered since it was alerted.
RecoveredSinceAlert(s) ==
  \E t0 \in Instants :
    /\ <<s, t0>> \in delivered
    /\ \E e, o \in Seen(s) :
         /\ statusFile[e].timestamp = t0
         /\ CheckOf(e, s).status = "error"
         /\ Before(e, o)
         /\ CheckOf(o, s).status = "ok"
         /\ Before(o, RunStart(s))

\* C12: a run puts in its message every service that has recovered since
\* it was alerted and has a new outage, not delivered so far, that has
\* lasted the threshold.
C12_FreshOutageIsAlerted ==
  [][Decides =>
       \A s \in LongServices' :
         (/\ RecoveredSinceAlert(s)
          /\ <<s, mapGet(currentOutages', s).startTime>> \notin delivered)
           => s \in servicesOf(newOutages')]_vars

\* Two lines with the same timestamp both carry a check of s.
TiedOn(s) ==
  \E i, j \in Seen(s) :
    i < j /\ statusFile[i].timestamp = statusFile[j].timestamp

LongNow(s) ==
  LET outages == findCurrentOutages(statusFile, clock)
  IN  /\ mapHas(outages, s)
      /\ mapGet(outages, s).duration >= NOTIFICATION_THRESHOLD

\* A message answered 2xx held an outage of s whose startTime is the
\* timestamp of a check of the run of error checks s is in now: the alert
\* was for the outage s has now (the start moves back when an earlier
\* observation is written late).
AlertedForOutageNow(s) ==
  \E t \in Instants :
    /\ <<s, t>> \in delivered
    /\ \E e \in Seen(s) :
         /\ statusFile[e].timestamp = t
         /\ e = RunStart(s) \/ Before(RunStart(s), e)

\* The alert of the outage s has now was delivered and the ledger in the
\* file reports s.
RecordedNow(s) ==
  /\ mapHas(findCurrentOutages(statusFile, clock), s)
  /\ AlertedForOutageNow(s)
  /\ reportedReadable
  /\ truthyEntry(reportedFile, s)

\* C20: a service with an outage over the threshold leads to the alert of
\* the outage it has being delivered and recorded in the ledger, or to the
\* service having no such outage any more.
C20_LongOutageIsEventuallyAlerted ==
  LongNow("svcA") ~> (RecordedNow("svcA") \/ ~LongNow("svcA"))

\* The ledger in the file reports s.
ReportedNow(s) == reportedReadable /\ truthyEntry(reportedFile, s)

\* What the code gives: a service with an outage over the threshold that
\* the ledger does not report leads to the ledger reporting it, which only
\* a message answered 2xx brings about, or to the service having no such
\* outage any more; delivery errors in between do not prevent it.
AlertedWhenNotInLedger ==
  (LongNow("svcA") /\ ~ReportedNow("svcA"))
    ~> (ReportedNow("svcA") \/ ~LongNow("svcA"))

====
